---- MODULE Spec2Model ----
(***************************************************************************)
(* A model of e-trade-tax-return-pl-helper (src/src/main.rs):              *)
(*   parse_brokerage_statement  - the four-state scanner over the "TJ"     *)
(*                                operations of a PDF's pages;             *)
(*   get_exchange_rate          - the backward day-by-day walk against the *)
(*                                NBP rate source;                         *)
(*   compute_tax and main       - the per-document loop and the totals.    *)
(*                                                                         *)
(* A Rust panic (unwrap/expect on None/Err, index out of bounds) aborts    *)
(* the process: pc becomes "panic" and nothing runs afterwards.            *)
(*                                                                         *)
(* Numbers: a parsed amount in USD is kept as its decimal in hundredths    *)
(* (86.16 -> 8616), a rate as its decimal in ten-thousandths (3.7247 ->    *)
(* 37247); each stands for the f32 nearest to it (Usd, Mid).  compute_tax  *)
(* and the totals are computed in f32, rounding after every operation.     *)
(* A chrono::NaiveDate is kept as its day number counted from 1 January of *)
(* MinYear, the first day of the model's calendar.                         *)
(***************************************************************************)
EXTENDS Integers, Sequences, FiniteSets, TLC

(***************************************************************************)
(* Strings.  A Rust String is a TLA+ string; Chars gives its characters,   *)
(* for the parsers and formatters that work character by character.        *)
(***************************************************************************)
Digits == <<"0", "1", "2", "3", "4", "5", "6", "7", "8", "9">>

IsDigit(c) == \E i \in 1..10 : Digits[i] = c

DigitVal(c) == (CHOOSE i \in 1..10 : Digits[i] = c) - 1

\* The byte strings of the modelled documents and their characters.
\* NON_UTF8 stands for a PDF string whose bytes are not valid UTF-8.
NON_UTF8 == "<ff>"

Chars(s) ==
    CASE s = "03/01/21" -> <<"0", "3", "/", "0", "1", "/", "2", "1">>
      [] s = "01/02/21" -> <<"0", "1", "/", "0", "2", "/", "2", "1">>
      [] s = "02/30/21" -> <<"0", "2", "/", "3", "0", "/", "2", "1">>
      [] s = "Dividend" -> <<"D", "i", "v", "i", "d", "e", "n", "d">>
      [] s = "INTC"     -> <<"I", "N", "T", "C">>
      [] s = "86.16"    -> <<"8", "6", ".", "1", "6">>
      [] s = "574.42"   -> <<"5", "7", "4", ".", "4", "2">>
      [] s = "100"      -> <<"1", "0", "0">>
      [] s = "25.5"     -> <<"2", "5", ".", "5">>
      [] s = "0.00"     -> <<"0", ".", "0", "0">>
      [] s = "N/A"      -> <<"N", "/", "A">>
      [] s = ""         -> <<>>
      [] OTHER          -> <<"?">>

RECURSIVE DigitsToNat(_)
DigitsToNat(cs) ==
    IF Len(cs) = 0 THEN 0
    ELSE 10 * DigitsToNat(SubSeq(cs, 1, Len(cs) - 1)) + DigitVal(cs[Len(cs)])

AllDigits(cs) == \A i \in 1..Len(cs) : IsDigit(cs[i])

\* str::parse::<f32>() on the decimal forms "ddd", "ddd.dd", ".dd", "ddd."
\* with an optional sign; the value is returned in hundredths.  Anything
\* else is an Err.  (Exponents, "inf" and "nan", which Rust also accepts,
\* and third and later fractional digits are outside the modelled strings.)
ParseF32(s) ==
    LET cs0  == Chars(s)
        neg  == Len(cs0) > 0 /\ cs0[1] = "-"
        sgn  == Len(cs0) > 0 /\ cs0[1] \in {"-", "+"}
        cs   == IF sgn THEN Tail(cs0) ELSE cs0
        dots == {i \in 1..Len(cs) : cs[i] = "."}
        dot  == IF dots = {} THEN Len(cs) + 1 ELSE CHOOSE i \in dots : TRUE
        ip   == SubSeq(cs, 1, dot - 1)
        fp   == SubSeq(cs, dot + 1, Len(cs))
        fp2  == SubSeq(fp \o <<"0", "0">>, 1, 2)
        ok   == /\ Cardinality(dots) <= 1
                /\ AllDigits(ip) /\ AllDigits(fp)
                /\ Len(ip) + Len(fp) >= 1
        mag  == 100 * DigitsToNat(ip) + DigitsToNat(fp2)
    IN  IF ok THEN [ok |-> TRUE, val |-> IF neg THEN 0 - mag ELSE mag]
        ELSE [ok |-> FALSE, val |-> 0]

\* pdf::primitive::PdfString::into_string(): Err on bytes that are not UTF-8.
IntoString(s) == [ok |-> s # NON_UTF8, str |-> s]

(***************************************************************************)
(* Calendar (chrono::NaiveDate, proleptic Gregorian).                      *)
(***************************************************************************)
\* First year of the model's calendar: day number 0 is 1 January MinYear,
\* and stands for NaiveDate::MIN, below which checked_sub_signed is None.
MinYear == 2020

IsLeap(y) == (y % 4 = 0 /\ y % 100 # 0) \/ y % 400 = 0

DaysInMonth(y, m) ==
    CASE m \in {1, 3, 5, 7, 8, 10, 12} -> 31
      [] m \in {4, 6, 9, 11}           -> 30
      [] OTHER                         -> IF IsLeap(y) THEN 29 ELSE 28

DaysInYear(y) == IF IsLeap(y) THEN 366 ELSE 365

RECURSIVE DaysBeforeYear(_)
DaysBeforeYear(y) ==
    IF y <= MinYear THEN 0 ELSE DaysBeforeYear(y - 1) + DaysInYear(y - 1)

RECURSIVE DaysBeforeMonth(_, _)
DaysBeforeMonth(y, m) ==
    IF m <= 1 THEN 0 ELSE DaysBeforeMonth(y, m - 1) + DaysInMonth(y, m - 1)

\* NaiveDate::from_ymd as a day number.
DayNum(y, m, d) == DaysBeforeYear(y) + DaysBeforeMonth(y, m) + d - 1

RECURSIVE YearOf(_, _)
YearOf(n, y) == IF n < DaysInYear(y) THEN y ELSE YearOf(n - DaysInYear(y), y + 1)

RECURSIVE MonthOf(_, _, _)
MonthOf(n, y, m) ==
    IF n < DaysInMonth(y, m) THEN m ELSE MonthOf(n - DaysInMonth(y, m), y, m + 1)

\* The (year, month, day) of a day number.
ToYMD(n) ==
    LET y  == YearOf(n, MinYear)
        r  == n - DaysBeforeYear(y)
        m  == MonthOf(r, y, 1)
    IN  [y |-> y, m |-> m, d |-> r - DaysBeforeMonth(y, m) + 1]

\* NaiveDate::parse_from_str(s, "%m/%d/%y") on the form "mm/dd/yy"; a
\* two-digit year below 70 is 20yy, otherwise 19yy.  Err (ok = FALSE) on
\* any other form and on a day that is not in the month.
ParseDate(s) ==
    LET cs == Chars(s)
        shape == /\ Len(cs) = 8
                 /\ cs[3] = "/" /\ cs[6] = "/"
                 /\ \A i \in {1, 2, 4, 5, 7, 8} : IsDigit(cs[i])
        mm == DigitsToNat(SubSeq(cs, 1, 2))
        dd == DigitsToNat(SubSeq(cs, 4, 5))
        yy == DigitsToNat(SubSeq(cs, 7, 8))
        yr == IF yy < 70 THEN 2000 + yy ELSE 1900 + yy
    IN  IF shape /\ mm \in 1..12 /\ dd >= 1 /\ dd <= DaysInMonth(yr, mm)
               /\ yr >= MinYear
        THEN [ok |-> TRUE, day |-> DayNum(yr, mm, dd)]
        ELSE [ok |-> FALSE, day |-> 0]

\* The walk's step with no day subtracted: the first query is the date itself.
CheckedSubDayZero(n) == [ok |-> TRUE, day |-> n]

\* The walk's step two days long.
CheckedSubDayTwo(n) == IF n > 1 THEN [ok |-> TRUE, day |-> n - 2]
                       ELSE [ok |-> FALSE, day |-> 0]

\* checked_sub_signed(Duration::days(1)): None below the first day.
CheckedSubDay(n) == IF n > 0 THEN [ok |-> TRUE, day |-> n - 1]
                    ELSE [ok |-> FALSE, day |-> 0]

Pad(k, width) ==
    [i \in 1..width |-> Digits[((k \div (10 ^ (width - i))) % 10) + 1]]

\* format!("{}", date.format("%Y-%m-%d")), as its ten characters.
FormatISO(n) ==
    LET t == ToYMD(n)
    IN  Pad(t.y, 4) \o <<"-">> \o Pad(t.m, 2) \o <<"-">> \o Pad(t.d, 2)

\* The date an ISO string names, as a day number (the inverse reading of
\* the "%Y-%m-%d" form, used to compare a Transaction's two dates).
ISODay(cs) ==
    DayNum(DigitsToNat(SubSeq(cs, 1, 4)), DigitsToNat(SubSeq(cs, 6, 7)),
           DigitsToNat(SubSeq(cs, 9, 10)))

NA == <<"N", "/", "A">>


(***************************************************************************)
(* Documents: pdf::primitive::Primitive values, content operations, pages. *)
(***************************************************************************)
PString(s)  == [kind |-> "String",  str |-> s,  elems |-> <<>>]
PInteger    == [kind |-> "Integer", str |-> "", elems |-> <<>>]
PArray(es)  == [kind |-> "Array",   str |-> "", elems |-> es]

Operation(operator, operands) == [operator |-> operator, operands |-> operands]

\* A text-show operation whose array holds one string.
TJ(s) == Operation("TJ", <<PArray(<<PString(s)>>)>>)

\* A page: ok is FALSE when page.unwrap() or contents.unwrap() fails.
Page(ops) == [ok |-> TRUE, operations |-> ops]
BadPage   == [ok |-> FALSE, operations |-> <<>>]

\* A file: openable is FALSE when File::open(..).unwrap() fails.
PdfFile(name, pages) == [name |-> name, openable |-> TRUE, pages |-> pages]
NoFile(name)         == [name |-> name, openable |-> FALSE, pages |-> <<>>]

(***************************************************************************)
(* The rate source (api.nbp.pl): a table from day numbers to the response  *)
(* to the GET for that day.                                                *)
(*   sent    FALSE when send() returns Err (connection error)              *)
(*   status  the HTTP status                                               *)
(*   json    FALSE when the body is not an NBPResponse<ExchangeRate>       *)
(*   rates   the mid values of the body's rates array                      *)
(* A day the table does not list has no published rate (status 404).       *)
(***************************************************************************)
Resp(sent, status, json, rates) ==
    [sent |-> sent, status |-> status, json |-> json, rates |-> rates]

Rate(mid) == Resp(TRUE, 200, TRUE, <<mid>>)
NotFound  == Resp(TRUE, 404, TRUE, <<>>)
EmptyRates == Resp(TRUE, 200, TRUE, <<>>)
BadJson   == Resp(TRUE, 200, FALSE, <<>>)
SendErr   == Resp(FALSE, 0, FALSE, <<>>)

\* The server's answer to the URL of line 88, which carries the ISO date.
Respond(tbl, iso) ==
    LET day == ISODay(iso)
    IN  IF day \in DOMAIN tbl THEN tbl[day] ELSE NotFound

\* reqwest's StatusCode::is_success.
StatusIsSuccess(resp) == resp.status >= 200 /\ resp.status <= 299

(***************************************************************************)
(* State.                                                                  *)
(***************************************************************************)
VARIABLES
    pdfs,               \* main: the files named on the command line, in order
    table,              \* the rate source
    pc,                 \* control position
    docIdx,             \* main: index of the current pdfname
    state,              \* parse_brokerage_statement: ParserState
    transaction_date,   \* parse_brokerage_statement: candidate date
    tax_us,             \* parse_brokerage_statement: stored tax
    pageIdx,            \* parse_brokerage_statement: current page
    opIdx,              \* parse_brokerage_statement: current operation
    p,                  \* main: the Result of parse_brokerage_statement
    converted_date,     \* get_exchange_rate: the date being queried
    is_success,         \* get_exchange_rate
    exchange_rate,      \* get_exchange_rate
    exchange_rate_date, \* get_exchange_rate
    queries,            \* the dates of the GET requests sent so far
    transactions,       \* main: Vec<Transaction>
    stdout,             \* lines printed by main
    panicMsg            \* the message of the panic that aborted the run

scanVars == <<state, transaction_date, tax_us, pageIdx, opIdx>>
rateVars == <<converted_date, is_success, exchange_rate, exchange_rate_date>>
mainVars == <<docIdx, transactions, stdout>>
vars == <<pdfs, table, pc, docIdx, state, transaction_date, tax_us, pageIdx,
          opIdx, p, converted_date, is_success, exchange_rate,
          exchange_rate_date, queries, transactions, stdout, panicMsg>>

NoResult == [ok |-> FALSE, date |-> "", gross |-> 0, tax |-> 0, err |-> ""]
OkResult(date, gross, tax) ==
    [ok |-> TRUE, date |-> date, gross |-> gross, tax |-> tax, err |-> ""]
\* The end of the stream answered with a default record instead of an Err.
ErrResultDefaultRecord(name) == OkResult("N/A", 0, 0)

\* Err(format!("Error parsing pdf: {}", pdftoparse)): the message prefix is
\* fixed, err keeps the document name that follows it.
ErrResult(name) ==
    [ok |-> FALSE, date |-> "", gross |-> 0, tax |-> 0, err |-> name]

Panic(msg) == /\ pc' = "panic"
              /\ panicMsg' = msg

(***************************************************************************)
(* parse_brokerage_statement                                               *)
(***************************************************************************)
CurFile == pdfs[docIdx]

\* Lines 115-121: open the file, initialise the scanner.
ParseOpen ==
    /\ pc = "open"
    /\ IF ~CurFile.openable
       THEN /\ Panic("called Result::unwrap() on an Err value")
            /\ UNCHANGED <<scanVars, p>>
       ELSE /\ state' = "SearchingDividendEntry"
            /\ transaction_date' = "N/A"
            /\ tax_us' = 0
            /\ pageIdx' = 1
            /\ opIdx' = 1
            /\ pc' = "pages"
            /\ UNCHANGED <<p, panicMsg>>
    /\ UNCHANGED <<pdfs, table, rateVars, queries, mainVars>>

NextPageResets ==
    /\ pc = "pages"
    /\ IF pageIdx > Len(CurFile.pages)
       THEN /\ p' = ErrResult(CurFile.name)
            /\ pc' = "parsed"
            /\ UNCHANGED <<opIdx, state, transaction_date, tax_us, panicMsg>>
       ELSE IF ~CurFile.pages[pageIdx].ok
       THEN /\ Panic("called Option::unwrap() on a None value")
            /\ UNCHANGED <<opIdx, state, transaction_date, tax_us, p>>
       ELSE /\ opIdx' = 1
            /\ pc' = "ops"
            /\ state' = "SearchingDividendEntry"
            /\ transaction_date' = "N/A"
            /\ tax_us' = 0
            /\ UNCHANGED <<p, panicMsg>>
    /\ UNCHANGED <<pdfs, table, pageIdx, rateVars, queries, mainVars>>

\* Lines 122-124 and 183: the head of the page loop; after the last page
\* the function returns Err.
NextPage ==
    /\ pc = "pages"
    /\ IF pageIdx > Len(CurFile.pages)
       THEN /\ p' = ErrResult(CurFile.name)
            /\ pc' = "parsed"
            /\ UNCHANGED <<opIdx, panicMsg>>
       ELSE IF ~CurFile.pages[pageIdx].ok
       THEN /\ Panic("called Option::unwrap() on a None value")
            /\ UNCHANGED <<opIdx, p>>
       ELSE /\ opIdx' = 1
            /\ pc' = "ops"
            /\ UNCHANGED <<p, panicMsg>>
    /\ UNCHANGED <<pdfs, table, state, transaction_date, tax_us, pageIdx,
                   rateVars, queries, mainVars>>

\* What one string does to the scanner: "go" (continue with the new
\* locals), "return" (the record is complete) or "panic" (an unwrap failed).
Go(st, date, tax) ==
    [what |-> "go", state |-> st, date |-> date, tax |-> tax, gross |-> 0]
Return(date, gross, tax) ==
    [what |-> "return", state |-> "SearchingDividendEntry", date |-> date,
     tax |-> tax, gross |-> gross]
Unwrap(st, date, tax) ==
    [what |-> "panic", state |-> st, date |-> date, tax |-> tax, gross |-> 0]

\* Lines 137-145.
InDividend(date, tax, rust_string) ==
    IF rust_string = "Dividend"
    THEN Go("SearchingINTCEntry", date, tax)
    ELSE Go("SearchingDividendEntry", rust_string, tax)

\* InINTC with the candidate date still recorded while looking for the ticker.
InINTCRecordsDate(date, tax, rust_string) ==
    IF rust_string = "INTC"
    THEN Go("SearchingTaxEntry", date, tax)
    ELSE Go("SearchingINTCEntry", rust_string, tax)

\* Lines 146-152.
InINTC(date, tax, rust_string) ==
    IF rust_string = "INTC"
    THEN Go("SearchingTaxEntry", date, tax)
    ELSE Go("SearchingINTCEntry", date, tax)

\* Lines 153-161.
InTax(date, tax, rust_string) ==
    LET n == ParseF32(rust_string)
    IN  IF n.ok THEN Go("SearchingGrossEntry", date, n.val)
        ELSE Unwrap("SearchingTaxEntry", date, tax)

\* InGross without the early return: the scanner goes back to looking for
\* the next marker.
InGrossNoReturn(date, tax, rust_string) ==
    LET n == ParseF32(rust_string)
    IN  IF n.ok THEN Go("SearchingDividendEntry", date, tax)
        ELSE Unwrap("SearchingGrossEntry", date, tax)

\* Lines 162-171.
InGross(date, tax, rust_string) ==
    LET n == ParseF32(rust_string)
    IN  IF n.ok THEN Return(date, n.val, tax)
        ELSE Unwrap("SearchingGrossEntry", date, tax)

\* Lines 136-172: the state machine on one string.
Step(st, date, tax, actual_string) ==
    LET s == IntoString(actual_string)
    IN  IF ~s.ok THEN Unwrap(st, date, tax)
        ELSE CASE st = "SearchingDividendEntry" -> InDividend(date, tax, s.str)
               [] st = "SearchingINTCEntry"     -> InINTC(date, tax, s.str)
               [] st = "SearchingTaxEntry"      -> InTax(date, tax, s.str)
               [] st = "SearchingGrossEntry"    -> InGross(date, tax, s.str)

\* Lines 126-135 and 173-180: which operations reach the state machine.
\* "string" with the string, "skip", or "panic" (c[0] on an empty array).
Select(op) ==
    IF op.operator = "TJ" /\ Len(op.operands) > 0
    THEN LET a == op.operands[1]
         IN  IF a.kind = "Array"
             THEN IF Len(a.elems) = 0
                  THEN [what |-> "panic", str |-> ""]
                  ELSE IF a.elems[1].kind = "String"
                       THEN [what |-> "string", str |-> a.elems[1].str]
                       ELSE [what |-> "skip", str |-> ""]
             ELSE [what |-> "skip", str |-> ""]
    ELSE [what |-> "skip", str |-> ""]

\* Lines 125-181: one iteration of the operations loop (or its end).
ScanOp ==
    /\ pc = "ops"
    /\ LET ops == CurFile.pages[pageIdx].operations
       IN  IF opIdx > Len(ops)
           THEN /\ pageIdx' = pageIdx + 1
                /\ pc' = "pages"
                /\ UNCHANGED <<state, transaction_date, tax_us, opIdx, p,
                               panicMsg>>
           ELSE LET sel == Select(ops[opIdx])
                    r   == Step(state, transaction_date, tax_us, sel.str)
                IN  CASE sel.what = "skip" ->
                           /\ opIdx' = opIdx + 1
                           /\ UNCHANGED <<state, transaction_date, tax_us,
                                          pageIdx, p, pc, panicMsg>>
                      [] sel.what = "panic" ->
                           /\ Panic("index out of bounds: the len is 0 but the index is 0")
                           /\ UNCHANGED <<scanVars, p>>
                      [] sel.what = "string" /\ r.what = "panic" ->
                           /\ Panic("called Result::unwrap() on an Err value")
                           /\ UNCHANGED <<scanVars, p>>
                      [] sel.what = "string" /\ r.what = "go" ->
                           /\ state' = r.state
                           /\ transaction_date' = r.date
                           /\ tax_us' = r.tax
                           /\ opIdx' = opIdx + 1
                           /\ UNCHANGED <<pageIdx, p, pc, panicMsg>>
                      [] sel.what = "string" /\ r.what = "return" ->
                           /\ state' = r.state
                           /\ p' = OkResult(r.date, r.gross, r.tax)
                           /\ pc' = "parsed"
                           /\ UNCHANGED <<transaction_date, tax_us, pageIdx,
                                          opIdx, panicMsg>>
    /\ UNCHANGED <<pdfs, table, rateVars, queries, mainVars>>

(***************************************************************************)
(* get_exchange_rate                                                       *)
(* The proxies of lines 58-73 are taken to be absent or well formed, so    *)
(* the client is always built.                                             *)
(***************************************************************************)
\* Lines 76-82: parse the date (unwrap), initialise the walk.
RateBegin ==
    /\ pc = "rate"
    /\ LET d == ParseDate(p.date)
       IN  IF ~d.ok
           THEN /\ Panic("called Result::unwrap() on an Err value")
                /\ UNCHANGED rateVars
           ELSE /\ converted_date' = d.day
                /\ is_success' = FALSE
                /\ exchange_rate' = 0
                /\ exchange_rate_date' = NA
                /\ pc' = "walk"
                /\ UNCHANGED panicMsg
    /\ UNCHANGED <<pdfs, table, scanVars, p, queries, mainVars>>

\* Fetch with a connection error taken for "no rate on that day".
FetchRetriesSendErr(resp) ==
    LET out(what, ok, mid, msg) ==
            [what |-> what, is_success |-> ok, mid |-> mid, msg |-> msg]
    IN  IF ~resp.sent \/ ~StatusIsSuccess(resp)
        THEN out("retry", FALSE, 0, "")
        ELSE IF ~resp.json
        THEN out("panic", TRUE, 0, "Error converting response to JSON")
        ELSE IF Len(resp.rates) = 0
        THEN out("panic", TRUE, 0,
                 "index out of bounds: the len is 0 but the index is 0")
        ELSE out("rate", TRUE, resp.rates[1], "")

\* Lines 92-107: what one response does to the walk: "panic" with msg,
\* "retry" (is_success stays false), or "rate" with rates[0].mid.
Fetch(resp) ==
    LET out(what, ok, mid, msg) ==
            [what |-> what, is_success |-> ok, mid |-> mid, msg |-> msg]
    IN  IF ~resp.sent
        THEN out("panic", FALSE, 0, "Getting Exchange Rate from NBP failed")
        ELSE IF ~StatusIsSuccess(resp)
        THEN out("retry", FALSE, 0, "")
        ELSE IF ~resp.json
        THEN out("panic", TRUE, 0, "Error converting response to JSON")
        ELSE IF Len(resp.rates) = 0
        THEN out("panic", TRUE, 0,
                 "index out of bounds: the len is 0 but the index is 0")
        ELSE out("rate", TRUE, resp.rates[1], "")

\* Lines 83-108: one iteration of `while is_success == false`.
WalkStep ==
    /\ pc = "walk"
    /\ LET prev == CheckedSubDay(converted_date)
           url  == FormatISO(prev.day)
           f    == Fetch(Respond(table, url))
       IN  IF ~prev.ok
           THEN /\ Panic("Error traversing date")
                /\ UNCHANGED <<rateVars, queries>>
           ELSE /\ queries' = Append(queries, url)
                /\ converted_date' = prev.day
                /\ is_success' = f.is_success
                /\ CASE f.what = "panic" ->
                          /\ Panic(f.msg)
                          /\ UNCHANGED <<exchange_rate, exchange_rate_date>>
                     [] f.what = "retry" ->
                          /\ UNCHANGED <<exchange_rate, exchange_rate_date,
                                         pc, panicMsg>>
                     [] f.what = "rate" ->
                          /\ exchange_rate' = f.mid
                          /\ exchange_rate_date' = FormatISO(prev.day)
                          /\ pc' = "rate_ret"
                          /\ UNCHANGED panicMsg
    /\ UNCHANGED <<pdfs, table, scanVars, p, mainVars>>

(***************************************************************************)
(* f32 arithmetic (IEEE 754 binary32, round to nearest, ties to even).     *)
(* A finite f32 is [s, m, e]: sign s (1 = negative), and magnitude         *)
(* m * 2^e with 2^23 <= m < 2^24, or m = 0 and e = 0 for zero.  Overflow   *)
(* to infinity and subnormals lie outside the magnitudes modelled.         *)
(***************************************************************************)
F32(s, m, e) == [s |-> s, m |-> m, e |-> e]

F32Zero == F32(0, 0, 0)

RECURSIVE BitLen(_)
BitLen(n) == IF n = 0 THEN 0 ELSE 1 + BitLen(n \div 2)

\* The f32 nearest to n * 2^e, the exact value lying strictly above it
\* (by less than 2^e) when sticky is TRUE.
RoundF32(s, n, e, sticky) ==
    LET k    == BitLen(n) - 24
        q    == n \div (2 ^ k)
        r    == n % (2 ^ k)
        half == 2 ^ (k - 1)
        up   == r > half \/ (r = half /\ (sticky \/ q % 2 = 1))
        m    == IF up THEN q + 1 ELSE q
    IN  IF n = 0 THEN F32Zero
        ELSE IF k <= 0 THEN F32(s, n * (2 ^ (0 - k)), e + k)
        ELSE IF m = 2 ^ 24 THEN F32(s, 2 ^ 23, e + k + 1)
        ELSE F32(s, m, e + k)

\* Binary long division: the quotient num / den carried on until it has 26
\* bits, with the binary exponent of its last bit and the remainder.
RECURSIVE LongDiv(_, _, _, _)
LongDiv(q, r, den, e) ==
    IF q >= 2 ^ 25 THEN [q |-> q, r |-> r, e |-> e]
    ELSE LongDiv(2 * q + ((2 * r) \div den), (2 * r) % den, den, e - 1)

\* The f32 nearest to the decimal n / den (str::parse::<f32>, and the
\* f32 a JSON number deserialises to).
F32FromDec(n, den) ==
    LET a == IF n < 0 THEN 0 - n ELSE n
        d == LongDiv(a \div den, a % den, den, 0)
    IN  IF a = 0 THEN F32Zero
        ELSE RoundF32(IF n < 0 THEN 1 ELSE 0, d.q, d.e, d.r # 0)

\* a * b.
F32Mul(a, b) ==
    LET ah  == a.m \div 4096
        al  == a.m % 4096
        bh  == b.m \div 4096
        bl  == b.m % 4096
        mid == ah * bl + al * bh
        x   == (mid % 4096) * 4096 + al * bl
        hi  == ah * bh + mid \div 4096 + x \div (2 ^ 24)
        lo  == x % (2 ^ 24)
        s   == (a.s + b.s) % 2
    IN  IF a.m = 0 \/ b.m = 0 THEN F32Zero
        ELSE RoundF32(s, hi * 16 + lo \div (2 ^ 20), a.e + b.e + 20,
                      lo % (2 ^ 20) # 0)

\* a / b, for b other than zero.
F32Div(a, b) ==
    LET d == LongDiv(a.m \div b.m, a.m % b.m, b.m, a.e - b.e)
    IN  IF a.m = 0 THEN F32Zero
        ELSE RoundF32((a.s + b.s) % 2, d.q, d.e, d.r # 0)

\* a + b.  The operand of smaller exponent is aligned on three guard bits,
\* the bits shifted out being kept as a sticky last bit.
F32Add(a, b) ==
    LET swap == a.m = 0 \/ (b.m # 0 /\ (b.e > a.e \/ (b.e = a.e /\ b.m > a.m)))
        x    == IF swap THEN b ELSE a
        y    == IF swap THEN a ELSE b
        d    == x.e - y.e
        xm   == x.m * 8
        ym   == IF d > 27 THEN 1
                ELSE (y.m * 8) \div (2 ^ d)
                       + (IF ((y.m * 8) % (2 ^ d)) # 0
                             /\ ((y.m * 8) \div (2 ^ d)) % 2 = 0
                          THEN 1 ELSE 0)
        n    == IF x.s = y.s THEN xm + ym ELSE xm - ym
    IN  IF x.m = 0 THEN F32Zero
        ELSE IF y.m = 0 THEN x
        ELSE RoundF32(x.s, n, x.e - 3, FALSE)

\* a - b.
F32Sub(a, b) == F32Add(a, F32(1 - b.s, b.m, b.e))

(***************************************************************************)
(* compute_tax and main                                                    *)
(***************************************************************************)
Transaction(date, gross, tax, rdate, rate) ==
    [transaction_date |-> date, gross_us |-> gross, tax_us |-> tax,
     exchange_rate_date |-> rdate, exchange_rate |-> rate]

\* A decimal amount of hundredths, and a rate of ten-thousandths, as the
\* f32 the program holds for it.
Usd(n) == F32FromDec(n, 100)

Mid(n) == F32FromDec(n, 10000)

RECURSIVE SumFromOne(_)
SumFromOne(xs) ==
    IF Len(xs) = 0 THEN F32FromDec(1, 1)
    ELSE F32Add(SumFromOne(SubSeq(xs, 1, Len(xs) - 1)), xs[Len(xs)])

SumOfLast(xs) == IF Len(xs) = 0 THEN F32Zero ELSE xs[Len(xs)]

\* Iterator::sum over f32: the items added one by one, in order, from zero.
RECURSIVE Sum(_)
Sum(xs) == IF Len(xs) = 0 THEN F32Zero
           ELSE F32Add(Sum(SubSeq(xs, 1, Len(xs) - 1)), xs[Len(xs)])

compute_tax_first_rate(ts) ==
    << Sum([i \in 1..Len(ts) |->
              F32Mul(Mid(ts[1].exchange_rate), Usd(ts[i].gross_us))]),
       Sum([i \in 1..Len(ts) |->
              F32Mul(Mid(ts[1].exchange_rate), Usd(ts[i].tax_us))]) >>

\* Lines 186-198.
compute_tax(ts) ==
    LET gross_us_pl == Sum([i \in 1..Len(ts) |->
                              F32Mul(Mid(ts[i].exchange_rate),
                                     Usd(ts[i].gross_us))])
        tax_us_pl   == Sum([i \in 1..Len(ts) |->
                              F32Mul(Mid(ts[i].exchange_rate),
                                     Usd(ts[i].tax_us))])
    IN  <<gross_us_pl, tax_us_pl>>

\* Lines 220-227: values_of("pdf documents") is None when no file is named.
MainStart ==
    /\ pc = "start"
    /\ IF Len(pdfs) = 0
       THEN /\ Panic("error getting brokarage statements pdfs names")
            /\ UNCHANGED docIdx
       ELSE /\ docIdx' = 1
            /\ pc' = "loop"
            /\ UNCHANGED panicMsg
    /\ UNCHANGED <<pdfs, table, scanVars, p, rateVars, queries, transactions,
                   stdout>>

\* Lines 228-231: the head of `for pdfname in pdfnames`.
MainLoop ==
    /\ pc = "loop"
    /\ pc' = IF docIdx > Len(pdfs) THEN "totals" ELSE "open"
    /\ UNCHANGED <<pdfs, table, scanVars, p, rateVars, queries, mainVars,
                   panicMsg>>

\* Line 233: `if let Ok(..) = p`; an Err is dropped and the loop goes on.
MainAfterParse ==
    /\ pc = "parsed"
    /\ IF p.ok
       THEN /\ pc' = "rate"
            /\ UNCHANGED docIdx
       ELSE /\ pc' = "loop"
            /\ docIdx' = docIdx + 1
    /\ UNCHANGED <<pdfs, table, scanVars, p, rateVars, queries, transactions,
                   stdout, panicMsg>>

MainPushFront ==
    /\ pc = "rate_ret"
    /\ LET t == Transaction(p.date, p.gross, p.tax, exchange_rate_date,
                            exchange_rate)
       IN  /\ stdout' = Append(stdout, [line |-> "TRANSACTION", val |-> t])
           /\ transactions' = <<t>> \o transactions
    /\ docIdx' = docIdx + 1
    /\ pc' = "loop"
    /\ UNCHANGED <<pdfs, table, scanVars, p, rateVars, queries, panicMsg>>

\* Lines 234-249: get_exchange_rate has returned Ok; print and push.
MainPush ==
    /\ pc = "rate_ret"
    /\ LET t == Transaction(p.date, p.gross, p.tax, exchange_rate_date,
                            exchange_rate)
       IN  /\ stdout' = Append(stdout, [line |-> "TRANSACTION", val |-> t])
           /\ transactions' = Append(transactions, t)
    /\ docIdx' = docIdx + 1
    /\ pc' = "loop"
    /\ UNCHANGED <<pdfs, table, scanVars, p, rateVars, queries, panicMsg>>

tax_diff_reversed(gross_us_pl, tax_us_pl) ==
    F32Sub(tax_us_pl, F32Div(F32Mul(gross_us_pl, F32FromDec(19, 1)),
                             F32FromDec(100, 1)))

\* Lines 256-257: full_tax_pl = gross_us_pl * 19.0 / 100.0, less tax_us_pl.
tax_diff_to_pay_pl(gross_us_pl, tax_us_pl) ==
    LET full_tax_pl == F32Div(F32Mul(gross_us_pl, F32FromDec(19, 1)),
                              F32FromDec(100, 1))
    IN  F32Sub(full_tax_pl, tax_us_pl)

\* Lines 252-258.
MainTotals ==
    /\ pc = "totals"
    /\ LET t == compute_tax(transactions)
           gross_us_pl == t[1]
           tax_us_pl   == t[2]
       IN  stdout' = stdout \o
               << [line |-> "PRZYCHOD Z ZAGRANICY", val |-> gross_us_pl],
                  [line |-> "PODATEK ZAPLACONY ZAGRANICA", val |-> tax_us_pl],
                  [line |-> "DOPLATA",
                   val |-> tax_diff_to_pay_pl(gross_us_pl, tax_us_pl)] >>
    /\ pc' = "done"
    /\ UNCHANGED <<pdfs, table, scanVars, p, rateVars, queries, docIdx,
                   transactions, panicMsg>>

(***************************************************************************)
(* Inputs and specifications.                                              *)
(***************************************************************************)
MaxDocs == 2    \* files on the command line (Spec)
MaxOps == 5     \* operations of the scanned page (SpecScan)
Lookback == 3   \* days before the query date the rate tables vary on (SpecRate)

BoundedSeq(S, n) == UNION {[1..k -> S] : k \in 0..n}

\* A rate table from (year, month, day, response) entries; entries before
\* the first day of the calendar are left out.
TableOf(entries) ==
    LET live == {e \in entries : e[1] >= MinYear}
    IN  [day \in {DayNum(e[1], e[2], e[3]) : e \in live} |->
            (CHOOSE e \in live : DayNum(e[1], e[2], e[3]) = day)[4]]

InitLocals ==
    /\ docIdx = 1
    /\ state = "SearchingDividendEntry"
    /\ transaction_date = "N/A"
    /\ tax_us = 0
    /\ pageIdx = 1
    /\ opIdx = 1
    /\ p = NoResult
    /\ converted_date = 0
    /\ is_success = FALSE
    /\ exchange_rate = 0
    /\ exchange_rate_date = NA
    /\ queries = <<>>
    /\ transactions = <<>>
    /\ stdout = <<>>
    /\ panicMsg = ""

\* ---- main, from process start ------------------------------------------
Example  == <<TJ("03/01/21"), TJ("Dividend"), TJ("INTC"), TJ("86.16"),
              TJ("574.42")>>

MainFiles ==
    { PdfFile("data/example.pdf", <<Page(Example)>>),
      PdfFile("data/example2.pdf", <<Page(SubSeq(Example, 1, 4))>>),
      PdfFile("data/january.pdf",
              << Page(<<TJ("01/02/21"), TJ("Dividend")>>),
                 Page(<<TJ("INTC"), TJ("25.5"), TJ("100")>>) >>),
      PdfFile("data/nodate.pdf", <<Page(Tail(Example))>>),
      PdfFile("data/malformed.pdf",
              <<Page(<<TJ("03/01/21"), TJ("Dividend"), TJ("INTC"),
                       TJ("INTC")>>)>>),
      NoFile("data/missing.pdf") }

MainTables ==
    { TableOf({ <<2021, 3, 1, Rate(37500)>>,
                <<2021, 2, 26, Rate(37247)>>,
                <<2021, 1, 2, Rate(37000)>>,
                <<2020, 12, 31, Rate(37584)>> }),
      TableOf({ <<2021, 2, 28, EmptyRates>>,
                <<2021, 2, 26, Rate(37247)>>,
                <<2020, 12, 31, Rate(37584)>> }),
      TableOf({ <<2021, 2, 26, Rate(37247)>>,
                <<2021, 1, 1, SendErr>>,
                <<2020, 12, 31, Rate(37584)>> }),
      TableOf({ <<2021, 2, 27, BadJson>>,
                <<2021, 1, 1, Rate(40000)>> }) }

Init ==
    /\ pdfs \in BoundedSeq(MainFiles, MaxDocs)
    /\ table \in MainTables
    /\ pc = "start"
    /\ InitLocals

Next ==
    \/ MainStart
    \/ MainLoop
    \/ ParseOpen
    \/ NextPage
    \/ ScanOp
    \/ MainAfterParse
    \/ RateBegin
    \/ WalkStep
    \/ MainPush
    \/ MainTotals

Spec == Init /\ [][Next]_vars

\* ---- parse_brokerage_statement alone, on every short page ---------------
ScanOps ==
    { TJ("03/01/21"), TJ("Dividend"), TJ("INTC"), TJ("86.16"), TJ("574.42"),
      Operation("Tf", <<PInteger>>) }

TwoDividends == Example \o <<TJ("01/02/21")>> \o Tail(Example)

InitScan ==
    /\ \E ops \in BoundedSeq(ScanOps, MaxOps) \cup {TwoDividends} :
           pdfs = <<PdfFile("data/example.pdf", <<Page(ops)>>)>>
    /\ table = TableOf({})
    /\ pc = "open"
    /\ InitLocals

NextScan ==
    \/ ParseOpen
    \/ NextPage
    \/ ScanOp

SpecScan == InitScan /\ [][NextScan]_vars

\* ---- get_exchange_rate as main calls it for one record (lines 234-249),
\* ---- on every table over the days near the date --------------------------
RateArgs == {"03/01/21", "01/02/21", "02/30/21", "N/A"}

Responses ==
    { NotFound, Rate(37247), Rate(40000), EmptyRates, BadJson, SendErr }

Window(arg) ==
    LET d == ParseDate(arg)
    IN  IF d.ok THEN {n \in (d.day - Lookback)..d.day : n >= 0} ELSE {}

InitRate ==
    /\ pdfs = <<>>
    /\ \E arg \in RateArgs :
           /\ table \in [Window(arg) -> Responses]
           /\ p = OkResult(arg, 57442, 8616)
    /\ pc = "rate"
    /\ docIdx = 1
    /\ state = "SearchingDividendEntry"
    /\ transaction_date = "N/A"
    /\ tax_us = 0
    /\ pageIdx = 1
    /\ opIdx = 1
    /\ converted_date = 0
    /\ is_success = FALSE
    /\ exchange_rate = 0
    /\ exchange_rate_date = NA
    /\ queries = <<>>
    /\ transactions = <<>>
    /\ stdout = <<>>
    /\ panicMsg = ""

NextRate ==
    \/ RateBegin
    \/ WalkStep
    \/ MainPush

SpecRate == InitRate /\ [][NextRate]_vars

(***************************************************************************)
(* Reference definitions for the scanner's properties: what a document     *)
(* says, read off its operations without running the state machine.        *)
(***************************************************************************)
IsText(op) ==
    /\ op.operator = "TJ"
    /\ Len(op.operands) > 0
    /\ op.operands[1].kind = "Array"
    /\ Len(op.operands[1].elems) > 0
    /\ op.operands[1].elems[1].kind = "String"

RECURSIVE AllOps(_)
AllOps(pages) ==
    IF Len(pages) = 0 THEN <<>>
    ELSE Head(pages).operations \o AllOps(Tail(pages))

\* The positions, in a sequence of operations, of the text-show strings.
RECURSIVE TextAt(_, _)
TextAt(ops, k) ==
    IF k > Len(ops) THEN <<>>
    ELSE (IF IsText(ops[k]) THEN <<k>> ELSE <<>>) \o TextAt(ops, k + 1)

\* The string tokens of a sequence of operations, in order.
TextOf(ops) ==
    LET at == TextAt(ops, 1)
    IN  [i \in 1..Len(at) |-> ops[at[i]].operands[1].elems[1].str]

FirstAt(toks, s, from) ==
    LET hits == {i \in from..Len(toks) : toks[i] = s}
    IN  IF hits = {} THEN 0 ELSE CHOOSE i \in hits : \A k \in hits : i <= k

MarkerAt(toks) == FirstAt(toks, "Dividend", 1)

TickerAt(toks) ==
    IF MarkerAt(toks) = 0 THEN 0 ELSE FirstAt(toks, "INTC", MarkerAt(toks) + 1)

\* The decimal strings of the modelled documents and their values, in
\* hundredths.
AmountOf(s) ==
    CASE s = "86.16"  -> 8616
      [] s = "574.42" -> 57442
      [] s = "100"    -> 10000
      [] s = "25.5"   -> 2550
      [] s = "0.00"   -> 0
      [] OTHER        -> -1

IsAmount(s) == AmountOf(s) >= 0

\* "complete": marker, later ticker, then two numeric strings;
\* "malformed": the string where the tax or the gross is expected is not a
\* number; "incomplete": the stream ends before the sequence does.
Outcome(toks) ==
    LET j == TickerAt(toks)
    IN  IF j = 0 \/ j + 1 > Len(toks) THEN "incomplete"
        ELSE IF ~IsAmount(toks[j + 1]) THEN "malformed"
        ELSE IF j + 2 > Len(toks) THEN "incomplete"
        ELSE IF ~IsAmount(toks[j + 2]) THEN "malformed"
        ELSE "complete"

\* The record a complete token stream brackets.
RecordOf(toks) ==
    LET i == MarkerAt(toks)
        j == TickerAt(toks)
    IN  OkResult(IF i = 1 THEN "N/A" ELSE toks[i - 1],
                 AmountOf(toks[j + 2]), AmountOf(toks[j + 1]))

\* The operations and string tokens of the document being scanned.
CurOps  == AllOps(CurFile.pages)
CurToks == TextOf(CurOps)

\* C1: a document whose string tokens hold a complete sequence (marker,
\* later the ticker, then two numeric strings) is never refused: the scan
\* returns Ok with date = the last string before the first marker ("N/A" if
\* none), tax = the first string after the first ticker that follows the
\* marker, gross = the string after it; and once the marker has been seen
\* the candidate date no longer changes.
C1_CompleteSequenceYieldsRecord ==
    (Len(pdfs) > 0 /\ Outcome(CurToks) = "complete") =>
        /\ pc # "panic"
        /\ pc = "parsed" => p = RecordOf(CurToks)
        /\ (pc \in {"pages", "ops"} /\ state # "SearchingDividendEntry") =>
               transaction_date = RecordOf(CurToks).date

C1_Witness ==
    /\ pc = "parsed"
    /\ CurOps = Example
    /\ p = OkResult("03/01/21", 57442, 8616)

\* C2: when the stream ends before the sequence is complete (in whichever
\* of the four states), the scan does not fail otherwise than by returning
\* the Err that carries the document's name, and it returns no record.
C2_IncompleteIsErrWithDocument ==
    (Len(pdfs) > 0 /\ Outcome(CurToks) = "incomplete") =>
        /\ pc # "panic"
        /\ pc = "parsed" => (~p.ok /\ p.err = CurFile.name
                             /\ p.date = "" /\ p.gross = 0 /\ p.tax = 0)

\* The stream that misses only the gross token, at its end.
C2_Witness ==
    /\ pc = "parsed"
    /\ CurOps = SubSeq(Example, 1, 4)
    /\ state = "SearchingGrossEntry"
    /\ ~p.ok
    /\ p.err = "data/example.pdf"

\* C7 (as claimed): a string that is not a number where the tax or the
\* gross is expected makes the scan return an error value to its caller.
C7_MalformedAmountIsReturnedAsErr ==
    (Len(pdfs) > 0 /\ Outcome(CurToks) = "malformed") =>
        /\ pc # "panic"
        /\ pc = "parsed" => ~p.ok

\* The index, among all operations of the document, of the next operation
\* the scanner reads.
RECURSIVE OpsBefore(_, _)
OpsBefore(pages, k) ==
    IF k <= 1 \/ Len(pages) = 0 THEN 0
    ELSE Len(Head(pages).operations) + OpsBefore(Tail(pages), k - 1)

Pos == OpsBefore(CurFile.pages, pageIdx) + (IF pc = "pages" THEN 1 ELSE opIdx)

\* The index of the operation that carries the first gross token.
GrossPos == TextAt(CurOps, 1)[TickerAt(CurToks) + 2]

\* C8: on a document that holds a complete sequence the scan never reads an
\* operation after the first gross token; it returns on that token, and the
\* record is the one bracketed by the prefix that ends there, whatever
\* follows it.
C8_ReturnsOnFirstGross ==
    (Len(pdfs) > 0 /\ Outcome(CurToks) = "complete") =>
        /\ Pos <= GrossPos
        /\ pc = "parsed" =>
              /\ Pos = GrossPos
              /\ p = RecordOf(TextOf(SubSeq(CurOps, 1, GrossPos)))

\* A second complete sequence follows the first and is not read.
C8_Witness ==
    /\ pc = "parsed"
    /\ CurOps = TwoDividends
    /\ Pos = 5
    /\ p = OkResult("03/01/21", 57442, 8616)

(***************************************************************************)
(* Reference definitions for the walk's properties, read off the table.    *)
(***************************************************************************)
\* The day get_exchange_rate is asked about (when the date string parses).
QueryOk  == ParseDate(p.date).ok
QueryDay == ParseDate(p.date).day

\* The source returns a rate for the day.
Published(day) ==
    /\ day \in DOMAIN table
    /\ table[day].sent
    /\ table[day].status = 200
    /\ table[day].json
    /\ Len(table[day].rates) > 0

\* The source answers the day with a non-success status.
Unpublished(day) ==
    day \in DOMAIN table => (table[day].sent /\ table[day].status = 404)

EarlierPublished == {e \in DOMAIN table : e < QueryDay /\ Published(e)}

Nearest == CHOOSE e \in EarlierPublished : \A k \in EarlierPublished : k <= e

LastQuery == queries[Len(queries)]

\* C3: every date queried, and the effective date returned, is strictly
\* earlier than the query date; so is the exchange_rate_date of every
\* Transaction collected next to its transaction_date.
C3_EffectiveDateStrictlyEarlier ==
    /\ \A i \in 1..Len(queries) : QueryOk /\ ISODay(queries[i]) < QueryDay
    /\ pc = "rate_ret" => ISODay(exchange_rate_date) < QueryDay
    /\ \A i \in 1..Len(transactions) :
           /\ ParseDate(transactions[i].transaction_date).ok
           /\ ISODay(transactions[i].exchange_rate_date)
                  < ParseDate(transactions[i].transaction_date).day

\* The query date itself has a published rate, and an earlier day's is taken.
C3_Witness ==
    /\ Len(transactions) = 1
    /\ QueryOk
    /\ Published(QueryDay)
    /\ ISODay(transactions[1].exchange_rate_date) = QueryDay - 2

\* C4: when some day before the query date has a published rate and the
\* days between the nearest such day and the query date answer "not found",
\* the walk does not fail and returns that nearest day, in ISO form, with
\* that day's rate.
C4_NearestEarlierPublishedRate ==
    (/\ QueryOk
     /\ EarlierPublished # {}
     /\ \A k \in (Nearest + 1)..(QueryDay - 1) : Unpublished(k)) =>
        /\ pc # "panic"
        /\ pc = "rate_ret" =>
              /\ ISODay(exchange_rate_date) = Nearest
              /\ exchange_rate_date = FormatISO(Nearest)
              /\ exchange_rate = table[Nearest].rates[1]
        /\ \A i \in 1..Len(transactions) :
              /\ ISODay(transactions[i].exchange_rate_date) = Nearest
              /\ transactions[i].exchange_rate = table[Nearest].rates[1]

\* 03/01/21 with nothing published on 27 and 28 February: 2021-02-26, 3.7247.
C4_Witness ==
    /\ pc = "rate_ret"
    /\ p.date = "03/01/21"
    /\ Len(queries) = 3
    /\ exchange_rate_date = <<"2", "0", "2", "1", "-", "0", "2", "-", "2", "6">>
    /\ exchange_rate = 37247

\* The largest number of days a bounded walk may look back (spec.md gives
\* 10 as the example bound).
MaxLookbackDays == 10

\* C5 (as claimed): the walk stops within a bounded number of day-steps,
\* with a rate or with an error value; it never goes on to earlier and
\* earlier dates until the calendar itself runs out.
C5_WalkIsBounded ==
    /\ Len(queries) <= MaxLookbackDays
    /\ panicMsg # "Error traversing date"

\* C6 (as claimed): a success response with an empty rates array counts as
\* "no rate for this date": after it the walk is still going, with no rate.
C6_EmptyRatesMeansNoRate ==
    (Len(queries) > 0 /\ Respond(table, LastQuery) = EmptyRates) =>
        /\ pc = "walk"
        /\ is_success = FALSE
        /\ exchange_rate_date = NA

\* C10: a day-step whose send fails, or whose success response is not the
\* expected JSON, ends the lookup: it is the last query, the run is aborted
\* with no rate returned and no transaction collected.
C10_TransportFailureAbortsWalk ==
    \A i \in 1..Len(queries) :
        LET r == Respond(table, queries[i])
        IN  (~r.sent \/ (r.status = 200 /\ ~r.json)) =>
                /\ i = Len(queries)
                /\ pc = "panic"
                /\ exchange_rate_date = NA
                /\ exchange_rate = 0
                /\ transactions = <<>>

\* The send fails on the second day back although the third has a rate.
C10_Witness ==
    /\ pc = "panic"
    /\ Len(queries) = 2
    /\ Respond(table, LastQuery) = SendErr
    /\ QueryOk
    /\ Published(QueryDay - 3)

\* C9 (as claimed): a scanner or resolver failure on one document never
\* aborts the run while later documents are still to be processed.
C9_FailureDoesNotAbortLaterDocuments ==
    ~(/\ pc = "panic"
      /\ Len(pdfs) > 0
      /\ docIdx < Len(pdfs)
      /\ CurFile.openable)

\* C11 (as claimed): a transaction date that is not in month/day/year form
\* makes get_exchange_rate return an error value to its caller, with no
\* query sent.
C11_InvalidDateIsReturnedAsErr ==
    ~QueryOk => (pc # "panic" /\ queries = <<>>)


(***************************************************************************)
(* compute_tax and the totals of main alone, on every short list of        *)
(* transactions.                                                           *)
(***************************************************************************)
MaxTx == 3      \* transactions handed to compute_tax (SpecTax)

\* The two transactions of test_computation (lines 305-320), and two with
\* amounts and rates that are not f32 numbers.
TxA == Transaction("N/A", 10000, 2500, NA, 40000)
TxB == Transaction("N/A", 12600, 1000, NA, 35000)
TxC == Transaction("03/01/21", 8616, 1292,
                   FormatISO(DayNum(2021, 2, 26)), 37247)
TxD == Transaction("01/02/21", 2550, 0,
                   FormatISO(DayNum(2021, 1, 1)), 37584)

TaxTransactions == {TxA, TxB, TxC, TxD}

InitTax ==
    /\ pdfs = <<>>
    /\ table = TableOf({})
    /\ pc = "totals"
    /\ transactions \in BoundedSeq(TaxTransactions, MaxTx)
    /\ docIdx = 1
    /\ state = "SearchingDividendEntry"
    /\ transaction_date = "N/A"
    /\ tax_us = 0
    /\ pageIdx = 1
    /\ opIdx = 1
    /\ p = NoResult
    /\ converted_date = 0
    /\ is_success = FALSE
    /\ exchange_rate = 0
    /\ exchange_rate_date = NA
    /\ queries = <<>>
    /\ stdout = <<>>
    /\ panicMsg = ""

NextTax == MainTotals

SpecTax == InitTax /\ [][NextTax]_vars

(***************************************************************************)
(* Reference definitions for the totals: the exact sums, in decimal.       *)
(***************************************************************************)
\* The value printed on the line of the given name.
Line(name) ==
    stdout[CHOOSE i \in 1..Len(stdout) : stdout[i].line = name].val

Totalled == pc = "done" /\ Len(stdout) > 0

\* An f32 in whole hundredths (grosze), rounded towards zero, with its sign.
Grosze(x) ==
    LET mag == IF x.m = 0 THEN 0
               ELSE IF x.e >= 0 THEN x.m * 100 * (2 ^ x.e)
               ELSE (x.m * 100) \div (2 ^ (0 - x.e))
    IN  IF x.s = 1 THEN 0 - mag ELSE mag

Abs(n) == IF n < 0 THEN 0 - n ELSE n

\* The exact sum of amount * rate, in millionths of a PLN.
RECURSIVE ExactGross(_)
ExactGross(ts) ==
    IF Len(ts) = 0 THEN 0
    ELSE Head(ts).gross_us * Head(ts).exchange_rate + ExactGross(Tail(ts))

RECURSIVE ExactTax(_)
ExactTax(ts) ==
    IF Len(ts) = 0 THEN 0
    ELSE Head(ts).tax_us * Head(ts).exchange_rate + ExactTax(Tail(ts))

\* The list ts in the order given by the permutation q of its indices.
Orders(n) ==
    {q \in [1..n -> 1..n] : \A i, j \in 1..n : q[i] = q[j] => i = j}

Permuted(ts, q) == [i \in 1..Len(ts) |-> ts[q[i]]]

\* C12: compute_tax returns the sum of gross_i * rate_i and the sum of
\* tax_i * rate_i, each transaction taken at its own rate: the two totals
\* are within one grosz of the exact decimal sums; a single transaction
\* gives exactly (g * r, t * r); and the two transactions of rates 4.0 and
\* 3.5, gross 100 and 126, tax 25 and 10 give exactly (841, 135).
C12_SumsAtOwnRate ==
    Totalled =>
        /\ Abs(Grosze(Line("PRZYCHOD Z ZAGRANICY"))
                 - ExactGross(transactions) \div 10000) <= 1
        /\ Abs(Grosze(Line("PODATEK ZAPLACONY ZAGRANICA"))
                 - ExactTax(transactions) \div 10000) <= 1
        /\ Len(transactions) = 1 =>
              /\ Line("PRZYCHOD Z ZAGRANICY")
                   = F32Mul(Mid(transactions[1].exchange_rate),
                            Usd(transactions[1].gross_us))
              /\ Line("PODATEK ZAPLACONY ZAGRANICA")
                   = F32Mul(Mid(transactions[1].exchange_rate),
                            Usd(transactions[1].tax_us))
        /\ transactions = <<TxA>> =>
              /\ Line("PRZYCHOD Z ZAGRANICY") = F32FromDec(400, 1)
              /\ Line("PODATEK ZAPLACONY ZAGRANICA") = F32FromDec(100, 1)
        /\ transactions = <<TxA, TxB>> =>
              /\ Line("PRZYCHOD Z ZAGRANICY") = F32FromDec(841, 1)
              /\ Line("PODATEK ZAPLACONY ZAGRANICA") = F32FromDec(135, 1)

\* The two transactions of the example, with their different rates.
C12_Witness ==
    /\ Totalled
    /\ transactions = <<TxA, TxB>>
    /\ Line("PRZYCHOD Z ZAGRANICY") = F32(0, 841 * (2 ^ 14), -14)

OutcomeOf(k) == Outcome(TextOf(AllOps(pdfs[k].pages)))

\* C14: compute_tax of no transactions is (0, 0); a run of main in which no
\* document's scan succeeded collects no transaction, and the totals it
\* reports, the top-up among them, are then 0.
C14_NoTransactionsGiveZero ==
    /\ compute_tax(<<>>) = <<F32Zero, F32Zero>>
    /\ (Totalled /\ \A k \in 1..Len(pdfs) : OutcomeOf(k) # "complete") =>
          /\ transactions = <<>>
          /\ Line("PRZYCHOD Z ZAGRANICY") = F32Zero
          /\ Line("PODATEK ZAPLACONY ZAGRANICA") = F32Zero
          /\ Line("DOPLATA") = F32Zero

\* Two documents, both scanned to their end without a complete sequence.
C14_Witness ==
    /\ Totalled
    /\ Len(pdfs) = 2
    /\ \A k \in 1..2 : OutcomeOf(k) = "incomplete"
    /\ Line("DOPLATA") = F32Zero

\* The transactions printed during the run, in the order printed.
RECURSIVE PrintedTransactions(_)
PrintedTransactions(out) ==
    IF Len(out) = 0 THEN <<>>
    ELSE (IF Head(out).line = "TRANSACTION" THEN <<Head(out).val>> ELSE <<>>)
           \o PrintedTransactions(Tail(out))

\* C17: the top-up main reports is gross_total * 19 / 100 - tax_total (to
\* within two grosze of the decimal value), where (gross_total, tax_total)
\* is compute_tax of exactly the transactions collected during the run; it
\* is negative when the tax total exceeds 19% of the gross total.
C17_TopUpIsNineteenPercentLessTax ==
    Totalled =>
        LET g == Line("PRZYCHOD Z ZAGRANICY")
            t == Line("PODATEK ZAPLACONY ZAGRANICA")
            d == Line("DOPLATA")
        IN  /\ transactions = PrintedTransactions(stdout)
            /\ <<g, t>> = compute_tax(transactions)
            /\ Abs(Grosze(d) - ((Grosze(g) * 19) \div 100 - Grosze(t))) <= 2
            /\ Grosze(t) * 100 > Grosze(g) * 19 + 200 => (d.s = 1 /\ d.m # 0)
            /\ Grosze(t) * 100 + 200 < Grosze(g) * 19 => (d.s = 0 /\ d.m # 0)

\* A dividend taxed at 25.5% abroad: the top-up is negative.
C17_Witness ==
    /\ Totalled
    /\ Len(transactions) = 1
    /\ transactions[1].gross_us = 10000
    /\ transactions[1].tax_us = 2550
    /\ Line("DOPLATA").s = 1
    /\ Grosze(Line("DOPLATA")) < 0


\* C15 (as claimed): the date asked about is itself a candidate: when it has
\* a published rate, that rate is the one returned.
C15_QueryDateIsCandidate ==
    (pc = "rate_ret" /\ QueryOk /\ Published(QueryDay)) =>
        /\ ISODay(exchange_rate_date) = QueryDay
        /\ exchange_rate = table[QueryDay].rates[1]

\* C15 (amended): the rate returned is the one of the latest day strictly
\* before the date asked about that has a published rate; the date asked
\* about is never queried, whether or not it has a rate.
C15_LatestStrictlyEarlierDate ==
    /\ \A i \in 1..Len(queries) : ISODay(queries[i]) # QueryDay
    /\ pc = "rate_ret" =>
          LET e == ISODay(exchange_rate_date)
          IN  /\ e < QueryDay
              /\ Published(e)
              /\ \A k \in (e + 1)..(QueryDay - 1) : ~Published(k)
              /\ exchange_rate = table[e].rates[1]

\* The date asked about has a rate, and the day before's is returned.
C15_Witness ==
    /\ pc = "rate_ret"
    /\ Published(QueryDay)
    /\ table[QueryDay].rates[1] = 40000
    /\ ISODay(exchange_rate_date) = QueryDay - 1
    /\ exchange_rate = 37247


\* The records of the documents before the k-th that hold a complete
\* sequence, in the order of the command line.
RECURSIVE RecordsBefore(_)
RecordsBefore(k) ==
    IF k <= 1 THEN <<>>
    ELSE RecordsBefore(k - 1)
           \o (IF OutcomeOf(k - 1) = "complete"
               THEN <<RecordOf(TextOf(AllOps(pdfs[k - 1].pages)))>>
               ELSE <<>>)

\* The record part of each transaction collected.
Collected ==
    [i \in 1..Len(transactions) |->
        OkResult(transactions[i].transaction_date, transactions[i].gross_us,
                 transactions[i].tax_us)]

\* C16: main takes the documents one after the other in argument order.
\* Whatever it is doing with document k (scanning it, or resolving its
\* date), the transactions collected are exactly those of the documents
\* before k that hold a record, in document order, and a transaction is
\* printed for each; a lookup runs only for the record of the current
\* document, after its scan has returned; and the totals are printed only
\* when every document has been processed.
C16_DocumentsInOrder ==
    /\ pc # "start" => docIdx \in 1..(Len(pdfs) + 1)
    /\ Collected = RecordsBefore(docIdx)
    /\ PrintedTransactions(stdout) = transactions
    /\ pc \in {"rate", "walk", "rate_ret"} =>
          /\ docIdx <= Len(pdfs)
          /\ OutcomeOf(docIdx) = "complete"
          /\ p = RecordOf(CurToks)
    /\ pc \in {"totals", "done"} => docIdx = Len(pdfs) + 1
    /\ \A i \in 1..Len(stdout) :
          stdout[i].line # "TRANSACTION" =>
              (pc = "done" /\ i > Len(transactions))

\* Two documents with different records, both resolved, and the totals.
C16_Witness ==
    /\ pc = "done"
    /\ Len(pdfs) = 2
    /\ Len(transactions) = 2
    /\ transactions[1].transaction_date = "03/01/21"
    /\ transactions[2].transaction_date = "01/02/21"
    /\ Len(stdout) = 5


\* The queries of a walk from the day d back to the day e: d - 1, ..., e.
WalkQueries(d, e) == [j \in 1..(d - e) |-> FormatISO(d - j)]

\* The queries of the lookups that have returned, one after the other.
RECURSIVE ReturnedQueries(_)
ReturnedQueries(k) ==
    IF k = 0 THEN <<>>
    ELSE ReturnedQueries(k - 1)
           \o WalkQueries(ParseDate(transactions[k].transaction_date).day,
                          ISODay(transactions[k].exchange_rate_date))

\* The queries sent so far that are not those of a returned lookup.
OpenQueries ==
    SubSeq(queries, Len(ReturnedQueries(Len(transactions))) + 1, Len(queries))

\* C19: each day-step sends one query, for the day before the one queried
\* last (the first for the day before the date asked about); a lookup that
\* returns has sent exactly (date asked about - effective date) queries and
\* returns the date of its last query; and every lookup sends all of its
\* queries again, whatever earlier lookups of the run have asked: the
\* queries of the run are those of its lookups one after the other.
C19_OneQueryPerDayNoCache ==
    /\ Len(queries) >= Len(ReturnedQueries(Len(transactions)))
    /\ SubSeq(queries, 1, Len(ReturnedQueries(Len(transactions))))
          = ReturnedQueries(Len(transactions))
    /\ OpenQueries # <<>> =>
          /\ pc \in {"walk", "rate_ret", "panic"}
          /\ QueryOk
          /\ \A j \in 1..Len(OpenQueries) :
                 OpenQueries[j] = FormatISO(QueryDay - j)
    /\ pc = "rate_ret" =>
          /\ OpenQueries # <<>>
          /\ exchange_rate_date = LastQuery
          /\ Len(OpenQueries) = QueryDay - ISODay(exchange_rate_date)

\* The same statement named twice: the three queries are sent twice.
C19_Witness ==
    /\ pc = "done"
    /\ Len(transactions) = 2
    /\ transactions[1] = transactions[2]
    /\ Len(queries) = 6
    /\ SubSeq(queries, 1, 3) = SubSeq(queries, 4, 6)
    /\ ISODay(queries[1]) - ISODay(queries[3]) = 2


(***************************************************************************)
(* parse_brokerage_statement on pages that mix text-show operations with   *)
(* every other kind of operation.                                          *)
(***************************************************************************)
MaxSkipOps == 4     \* operations of the scanned page (SpecSkip)

SkipOps ==
    { TJ("Dividend"), TJ("INTC"), TJ("86.16"),
      Operation("Tf", <<PInteger>>),
      Operation("TJ", <<>>),
      Operation("TJ", <<PInteger>>),
      Operation("TJ", <<PArray(<<>>)>>),
      Operation("TJ", <<PArray(<<PInteger, PString("INTC")>>)>>) }

InitSkip ==
    /\ \E ops \in BoundedSeq(SkipOps, MaxSkipOps) :
           pdfs = <<PdfFile("data/example.pdf", <<Page(ops)>>)>>
    /\ table = TableOf({})
    /\ pc = "open"
    /\ InitLocals

SpecSkip == InitSkip /\ [][NextScan]_vars

\* C18 (as claimed): an operation that is not a "TJ" whose first operand is
\* a non-empty array starting with a string is skipped: the scan goes on to
\* the next operation without failing, and the state, the candidate date
\* and the stored tax are as before.
C18_OtherOperationsAreSkipped ==
    [][(/\ pc = "ops"
        /\ opIdx <= Len(CurFile.pages[pageIdx].operations)
        /\ ~IsText(CurFile.pages[pageIdx].operations[opIdx]))
       => (/\ pc' = "ops"
           /\ opIdx' = opIdx + 1
           /\ panicMsg' = panicMsg
           /\ state' = state
           /\ transaction_date' = transaction_date
           /\ tax_us' = tax_us)]_vars


(***************************************************************************)
(* parse_brokerage_statement on documents of several pages: every short    *)
(* sequence of strings, cut into two pages at every place.                 *)
(***************************************************************************)
MaxPageOps == 5     \* operations of the document, all pages together

PageOps == {TJ("03/01/21"), TJ("Dividend"), TJ("INTC"), TJ("86.16")}

\* One string to a page, with an empty page in between.
ThreePages ==
    PdfFile("data/example.pdf",
            << Page(SubSeq(Example, 1, 2)), Page(<<>>),
               Page(SubSeq(Example, 3, 3)), Page(SubSeq(Example, 4, 5)) >>)

InitPages ==
    /\ \/ \E ops \in BoundedSeq(PageOps, MaxPageOps) :
            \E cut \in 0..Len(ops) :
                pdfs = <<PdfFile("data/example.pdf",
                                 << Page(SubSeq(ops, 1, cut)),
                                    Page(SubSeq(ops, cut + 1, Len(ops))) >>)>>
       \/ pdfs = <<ThreePages>>
    /\ table = TableOf({})
    /\ pc = "open"
    /\ InitLocals

SpecPages == InitPages /\ [][NextScan]_vars

\* The strings the scanner has read so far, over all pages.
Consumed == TextOf(SubSeq(CurOps, 1, Pos - 1))

LastOf(toks) == IF Len(toks) = 0 THEN "N/A" ELSE toks[Len(toks)]

\* What the strings read so far leave the scanner with, whichever pages
\* they stood on: its state, candidate date and stored tax.
LocalsAfter(toks) ==
    LET i == MarkerAt(toks)
        j == TickerAt(toks)
    IN  IF i = 0
        THEN <<"SearchingDividendEntry", LastOf(toks), 0>>
        ELSE IF j = 0
        THEN <<"SearchingINTCEntry", LastOf(SubSeq(toks, 1, i - 1)), 0>>
        ELSE IF Len(toks) = j
        THEN <<"SearchingTaxEntry", LastOf(SubSeq(toks, 1, i - 1)), 0>>
        ELSE <<"SearchingGrossEntry", LastOf(SubSeq(toks, 1, i - 1)),
               AmountOf(toks[j + 1])>>

\* C20: the state, the candidate date and the stored tax are set once, when
\* the document is opened, and depend only on the strings read so far, not
\* on the pages they stand on: a date or a marker read on an earlier page
\* is still in effect on the later ones, and the document yields the record
\* (or the Err) that its strings yield when they all stand on one page.
C20_LocalsCarriedAcrossPages ==
    (Len(pdfs) > 0 /\ Len(CurFile.pages) > 1
       /\ Outcome(CurToks) # "malformed") =>
        /\ pc # "panic"
        /\ pc \in {"pages", "ops"} =>
              <<state, transaction_date, tax_us>> = LocalsAfter(Consumed)
        /\ pc = "parsed" =>
              p = IF Outcome(CurToks) = "complete"
                  THEN RecordOf(CurToks)
                  ELSE ErrResult(CurFile.name)

\* The date and the marker on the first page, the rest on the second.
C20_Witness ==
    /\ pc = "parsed"
    /\ Len(CurFile.pages) = 2
    /\ CurFile.pages[1].operations = <<TJ("03/01/21"), TJ("Dividend")>>
    /\ CurFile.pages[2].operations = <<TJ("INTC"), TJ("86.16"), TJ("86.16")>>
    /\ p = OkResult("03/01/21", 8616, 8616)

====
